---- MODULE Spec2Model ----
(***************************************************************************)
(* One-pass (streaming) mean, variance / standard deviation and per-cell   *)
(* t-digest accumulators of algorithms/algorithms.py.                      *)
(*                                                                         *)
(* A driver builds ONE aggregator from the spatial shape of a first chunk  *)
(* (init_mean, init_var or init_tdigests) and then folds chunks into it,   *)
(* one update call per chunk.  A chunk is a sequence (time axis, length w) *)
(* of rows; a row holds one integer sample per flattened grid cell.        *)
(*                                                                         *)
(* Arithmetic is exact: a number is a normalised fraction <<p, q>> with    *)
(* q > 0 and gcd(p, q) = 1, so two numbers are equal iff their tuples are. *)
(* float64 rounding is outside the model.                                  *)
(***************************************************************************)
EXTENDS Integers, Sequences, FiniteSets, TLC

\* ------------------------------------------------------------------ bounds
MaxScalars == 4
MaxCells == 2
MaxVal == 1

\* the integer samples a cell can take
Values == -1..MaxVal
Kinds == {"mean", "var", "tdigest"}

\* --------------------------------------------------------- exact fractions
Abs(i) == IF i < 0 THEN -i ELSE i
Max(a, b) == IF a >= b THEN a ELSE b

RECURSIVE GCD(_, _)
GCD(a, b) == IF b = 0 THEN a ELSE GCD(b, a % b)

\* p / q for q # 0, in lowest terms with a positive denominator
Norm(p, q) ==
  LET g == GCD(Abs(p), Abs(q))
      s == IF q < 0 THEN -1 ELSE 1
  IN  <<(s * p) \div g, (s * q) \div g>>

\* Op(a, b) with each argument evaluated once (TLC passes operator arguments
\* by name; the bound x and y hold values)
Bin(Op(_, _), a, b) == CHOOSE r \in {Op(x, y) : x \in {a}, y \in {b}} : TRUE

R(i) == <<i, 1>>
AddF(a, b) == Norm(a[1] * b[2] + b[1] * a[2], a[2] * b[2])
SubF(a, b) == Norm(a[1] * b[2] - b[1] * a[2], a[2] * b[2])
MulF(a, b) == Norm(a[1] * b[1], a[2] * b[2])
DivF(a, b) == Norm(a[1] * b[2], a[2] * b[1])
RAdd(a, b) == Bin(AddF, a, b)
RSub(a, b) == Bin(SubF, a, b)
RMul(a, b) == Bin(MulF, a, b)
RDiv(a, b) == Bin(DivF, a, b)
RNeg(a) == a[1] < 0

RECURSIVE RSum(_)
RSum(s) == IF s = <<>> THEN R(0) ELSE RAdd(s[1], RSum(Tail(s)))

\* ------------------------------------------------------------------ arrays
\* the function f with domain 1..k as an explicit tuple (TLC keeps a function
\* constructor unevaluated until then)
Tup(f) == f \o <<>>

\* numpy broadcasting of two flat arrays: equal lengths, or one of length 1
CanBroadcast(a, b) == Len(a) = Len(b) \/ Len(a) = 1 \/ Len(b) = 1
At(a, j) == IF Len(a) = 1 THEN a[1] ELSE a[j]
ZipF(Op(_, _), a, b) ==
  Tup([j \in 1..Max(Len(a), Len(b)) |-> Op(At(a, j), At(b, j))])
Zip(Op(_, _), a, b) == CHOOSE r \in {ZipF(Op, x, y) : x \in {a}, y \in {b}} : TRUE
ScaleF(k, a) == Tup([j \in 1..Len(a) |-> RMul(k, a[j])])
Scale(k, a) == Bin(ScaleF, k, a)
Zeros(c) == Tup([j \in 1..c |-> R(0)])

\* a chunk: w time steps of c cells each
Rows(c) == [1..c -> Values]
Chunks(c, w) == [1..w -> Rows(c)]
Cells(chunk) == Len(chunk[1])
\* the float64 view of one time slice
ToArr(row) == Tup([j \in 1..Len(row) |-> R(row[j])])
\* the samples of cell j over the time axis, as numbers
Column(rows, j) == Tup([t \in 1..Len(rows) |-> R(rows[t][j])])

\* ---------------------------------------------------- two-pass reductions
two_pass_mean(data_chunk) ==
  Tup([j \in 1..Cells(data_chunk) |->
         RDiv(RSum(Column(data_chunk, j)), R(Len(data_chunk)))])

\* ddof = 1; called by update_var only with a time length > 1
two_pass_var(data_chunk) ==
  CHOOSE r \in
    {Tup([j \in 1..Cells(data_chunk) |->
            RDiv(RSum(Tup([t \in 1..Len(data_chunk) |->
                             RMul(RSub(R(data_chunk[t][j]), m[j]),
                                  RSub(R(data_chunk[t][j]), m[j]))])),
                 R(Len(data_chunk) - 1))]) : m \in {two_pass_mean(data_chunk)}} : TRUE

\* ------------------------------------------------------------ update_mean
\* update_mean without `n += w`: the count it returns is the one it was given
update_mean_no_count(data_chunk, w, n, mean_cumulative) ==
  LET value == IF w > 1 THEN two_pass_mean(data_chunk) ELSE ToArr(data_chunk[1])
  IN  [mean |-> Zip(RAdd, mean_cumulative,
                    Scale(RDiv(R(w), R(n + w)), Zip(RSub, value, mean_cumulative))),
       n |-> n]

\* update_mean without the factor w on the increment
update_mean_unweighted(data_chunk, w, n, mean_cumulative) ==
  LET n1 == n + w
      value == IF w > 1 THEN two_pass_mean(data_chunk) ELSE ToArr(data_chunk[1])
  IN  [mean |-> Zip(RAdd, mean_cumulative,
                    Scale(RDiv(R(1), R(n1)), Zip(RSub, value, mean_cumulative))),
       n |-> n1]

\* returns (mean_cumulative, n)
update_mean(data_chunk, w, n, mean_cumulative) ==
  LET n1 == n + w
      value == IF w > 1 THEN two_pass_mean(data_chunk) ELSE ToArr(data_chunk[1])
      delta == Zip(RSub, value, mean_cumulative)
  IN  [mean |-> Zip(RAdd, mean_cumulative,
                    Tup([j \in 1..Len(delta) |-> RDiv(RMul(R(w), delta[j]), R(n1))])),
       n |-> n1]

\* ------------------------------------------------------------- update_var
Square(a) == RMul(a, a)

\* the w > 1 combination with the weight taken after the count has advanced
batch_M2_late_n(var_cumulative, temp_var, old_mean, temp_mean, n, w) ==
  Zip(RAdd, Zip(RAdd, var_cumulative, temp_var),
      Scale(RDiv(R((n + w) * w), R(n + w + w)),
            Zip(RMul, Zip(RSub, old_mean, temp_mean),
                Zip(RSub, old_mean, temp_mean))))

\* the w > 1 combination without the cross term between the two means
batch_M2_no_cross(var_cumulative, temp_var, old_mean, temp_mean, n, w) ==
  Zip(RAdd, var_cumulative, temp_var)

\* var_cumulative + temp_var + square(old_mean - temp_mean) * ((n * w) / (n + w))
batch_M2(var_cumulative, temp_var, old_mean, temp_mean, n, w) ==
  LET diff == Zip(RSub, old_mean, temp_mean)
      sq == Tup([j \in 1..Len(diff) |-> Square(diff[j])])
  IN  Zip(RAdd, Zip(RAdd, var_cumulative, temp_var),
          Scale(RDiv(R(n * w), R(n + w)), sq))

\* the w = 1 step with the pre-update mean in both factors
welford_M2_old_mean(data_chunk, w, old_mean, mean_new, var_cumulative) ==
  LET x == ToArr(data_chunk[1])
  IN  Zip(RAdd, var_cumulative,
          Scale(R(w), Zip(RMul, Zip(RSub, x, old_mean), Zip(RSub, x, old_mean))))

\* the w = 1 step with the post-update mean in both factors
welford_M2_new_mean(data_chunk, w, old_mean, mean_new, var_cumulative) ==
  LET x == ToArr(data_chunk[1])
  IN  Zip(RAdd, var_cumulative,
          Scale(R(w), Zip(RMul, Zip(RSub, x, mean_new), Zip(RSub, x, mean_new))))

\* var_cumulative + w * (data_chunk - old_mean) * (data_chunk - mean_cumulative)
welford_M2(data_chunk, w, old_mean, mean_new, var_cumulative) ==
  LET x == ToArr(data_chunk[1])
  IN  Zip(RAdd, var_cumulative,
          Scale(R(w), Zip(RMul, Zip(RSub, x, old_mean), Zip(RSub, x, mean_new))))

\* returns (n, mean_cumulative, var_cumulative)
update_var(data_chunk, w, n, mean_cumulative, var_cumulative) ==
  LET old_mean == mean_cumulative
      um == update_mean(data_chunk, w, n, mean_cumulative)
  IN  IF w = 1
      THEN [n |-> um.n, mean |-> um.mean,
            var |-> welford_M2(data_chunk, w, old_mean, um.mean, var_cumulative)]
      ELSE LET temp_mean == two_pass_mean(data_chunk)
               temp_var == Scale(R(w - 1), two_pass_var(data_chunk))
           IN  [n |-> um.n, mean |-> um.mean,
                var |-> batch_M2(var_cumulative, temp_var, old_mean, temp_mean, n, w)]

\* --------------------------------------------------------------- calc_std
\* np.sqrt: NaN for a negative v, else the non-negative root of v, kept as
\* the term "the root of `of`" (it need not be a fraction)
Sqrt(v) ==
  IF RNeg(v) THEN [nan |-> TRUE, of |-> R(0)] ELSE [nan |-> FALSE, of |-> v]

\* "value" with the array, or the UnboundLocalError raised by `return
\* std_cumulative` when the n - 1 # 0 branch was not taken
calc_std(var_cumulative, n) ==
  IF (n - 1) # 0
  THEN [kind |-> "value",
        std |-> Tup([j \in 1..Len(var_cumulative) |->
                       Sqrt(RDiv(var_cumulative[j], R(n - 1)))])]
  ELSE [kind |-> "UnboundLocalError", std |-> <<>>]

\* --------------------------------------------------------- t-digest array
\* A digest is modelled by the sequence of samples fed to it, in feed order.
init_tdigests(data_chunk) ==
  [digest_list |-> [j \in 1..Cells(data_chunk) |-> <<>>],
   size_data_source_tail |-> Cells(data_chunk)]

init_mean(data_chunk) == Zeros(Cells(data_chunk))
init_var(data_chunk) ==
  [mean |-> Zeros(Cells(data_chunk)), var |-> Zeros(Cells(data_chunk))]

\* the chunk's values in C (row-major) order
RECURSIVE Flat(_)
Flat(rows) == IF rows = <<>> THEN <<>> ELSE rows[1] \o Flat(Tail(rows))
IntColumn(rows, j) == Tup([t \in 1..Len(rows) |-> rows[t][j]])

\* the w > 1 branch reading the flat values as (cellcount, w) instead of (w, -1)
update_tdigest_row_major(data_chunk, size_data_source_tail, digest_list, n, w) ==
  LET flat == Flat(data_chunk)
  IN  [err |-> "none", n |-> n + w,
       digest_list |-> [j \in 1..Len(digest_list) |->
          digest_list[j] \o SubSeq(flat, (j - 1) * w + 1, j * w)]]

\* returns (n, digest_list); digest_list is updated in place, so the digests
\* fed before an exception stay fed
update_tdigest(data_chunk, size_data_source_tail, digest_list, n, w) ==
  LET c == Cells(data_chunk)
  IN  IF w = 1
      THEN IF Len(Flat(data_chunk)) # size_data_source_tail
           THEN [err |-> "ValueError", n |-> n, digest_list |-> digest_list]
           ELSE [err |-> "none", n |-> n + w,
                 digest_list |-> [j \in 1..Len(digest_list) |->
                    IF j <= size_data_source_tail
                    THEN Append(digest_list[j], Flat(data_chunk)[j])
                    ELSE digest_list[j]]]
      ELSE IF size_data_source_tail <= c
           THEN [err |-> "none", n |-> n + w,
                 digest_list |-> [j \in 1..Len(digest_list) |->
                    IF j <= size_data_source_tail
                    THEN digest_list[j] \o IntColumn(data_chunk, j)
                    ELSE digest_list[j]]]
           ELSE [err |-> "IndexError", n |-> n,
                 digest_list |-> [j \in 1..Len(digest_list) |->
                    IF j <= c
                    THEN digest_list[j] \o IntColumn(data_chunk, j)
                    ELSE digest_list[j]]]

\* ------------------------------------------------------------------- state
VARIABLES
  kind,             \* which aggregator the driver built
  size,             \* cell count of the spatial shape fixed at initialisation
  n,                \* sample count held by the driver
  mean_cumulative,  \* running mean, one number per cell
  var_cumulative,   \* running M2, one number per cell
  digest_list,      \* per-cell digests
  hist,             \* history: the rows folded in so far, in arrival order
  wsum,             \* history: the sum of the w of every update that returned
  call,             \* history: the last call, its w and its chunk's cell count
  std,              \* what the last calc_std call produced
  err               \* the exception the last call raised, or "none"

vars == <<kind, size, n, mean_cumulative, var_cumulative, digest_list,
          hist, wsum, call, std, err>>

NoStd == [kind |-> "none", std |-> <<>>]
NoCall == [op |-> "init", w |-> 0, cells |-> 0]

RECURSIVE Fed(_)
Fed(dl) == IF dl = <<>> THEN 0 ELSE Len(dl[1]) + Fed(Tail(dl))

\* the driver derives the shape from a first chunk and builds one aggregator
Init ==
  \E k \in Kinds, c \in 1..MaxCells :
    \E first \in Chunks(c, 1) :
      /\ kind = k
      /\ size = Cells(first)
      /\ n = 0
      /\ mean_cumulative =
           IF k = "mean" THEN init_mean(first)
           ELSE IF k = "var" THEN init_var(first).mean ELSE <<>>
      /\ var_cumulative = IF k = "var" THEN init_var(first).var ELSE <<>>
      /\ digest_list = IF k = "tdigest" THEN init_tdigests(first).digest_list ELSE <<>>
      /\ hist = <<>>
      /\ wsum = 0
      /\ call = NoCall
      /\ std = NoStd
      /\ err = "none"

\* mean_cumulative, n = update_mean(chunk, w, n, mean_cumulative)
UpdateMean(chunk) ==
  /\ kind = "mean"
  /\ call' = [op |-> "update_mean", w |-> Len(chunk), cells |-> Cells(chunk)]
  /\ std' = NoStd
  /\ IF CanBroadcast(chunk[1], mean_cumulative)
     THEN \E r \in {update_mean(chunk, Len(chunk), n, mean_cumulative)} :
            /\ mean_cumulative' = r.mean
            /\ n' = r.n
            /\ hist' = hist \o chunk
            /\ wsum' = wsum + Len(chunk)
            /\ err' = "none"
     ELSE /\ err' = "ValueError"
          /\ UNCHANGED <<mean_cumulative, n, hist, wsum>>
  /\ UNCHANGED <<kind, size, var_cumulative, digest_list>>

\* n, mean_cumulative, var_cumulative = update_var(chunk, w, n, mean, var)
UpdateVar(chunk) ==
  /\ kind = "var"
  /\ call' = [op |-> "update_var", w |-> Len(chunk), cells |-> Cells(chunk)]
  /\ std' = NoStd
  /\ IF CanBroadcast(chunk[1], mean_cumulative)
     THEN \E r \in {update_var(chunk, Len(chunk), n, mean_cumulative,
                               var_cumulative)} :
            /\ mean_cumulative' = r.mean
            /\ var_cumulative' = r.var
            /\ n' = r.n
            /\ hist' = hist \o chunk
            /\ wsum' = wsum + Len(chunk)
            /\ err' = "none"
     ELSE /\ err' = "ValueError"
          /\ UNCHANGED <<mean_cumulative, var_cumulative, n, hist, wsum>>
  /\ UNCHANGED <<kind, size, digest_list>>

\* n, digest_list = update_tdigest(chunk, size, digest_list, n, w)
UpdateTDigest(chunk) ==
  /\ kind = "tdigest"
  /\ \E r \in {update_tdigest(chunk, size, digest_list, n, Len(chunk))} :
       /\ digest_list' = r.digest_list
       /\ n' = r.n
       /\ err' = r.err
       /\ hist' = IF r.err = "none" THEN hist \o chunk ELSE hist
       /\ wsum' = IF r.err = "none" THEN wsum + Len(chunk) ELSE wsum
  /\ call' = [op |-> "update_tdigest", w |-> Len(chunk), cells |-> Cells(chunk)]
  /\ std' = NoStd
  /\ UNCHANGED <<kind, size, mean_cumulative, var_cumulative>>

\* std = calc_std(var_cumulative, n)
CalcStd ==
  /\ kind = "var"
  /\ \E r \in {calc_std(var_cumulative, n)} :
       /\ std' = r
       /\ err' = IF r.kind = "value" THEN "none" ELSE r.kind
  /\ call' = [op |-> "calc_std", w |-> 0, cells |-> size]
  /\ UNCHANGED <<kind, size, n, mean_cumulative, var_cumulative,
                 digest_list, hist, wsum>>

\* the longest chunk of c cells the bound on streamed scalars still admits
Room(c) ==
  IF kind = "tdigest"
  THEN (MaxScalars - Fed(digest_list)) \div Max(c, size)
  ELSE (MaxScalars \div Max(c, Len(mean_cumulative))) - n

\* every chunk has the spatial shape the aggregator was built for
Next ==
  \/ \E w \in 1..Room(size) : \E chunk \in Chunks(size, w) : UpdateMean(chunk)
  \/ \E w \in 1..Room(size) : \E chunk \in Chunks(size, w) : UpdateVar(chunk)
  \/ \E w \in 1..Room(size) : \E chunk \in Chunks(size, w) : UpdateTDigest(chunk)
  \/ CalcStd

Spec == Init /\ [][Next]_vars

\* chunks of any cell count, also one that differs from the aggregator's shape
NextShape ==
  \/ \E c \in 1..(MaxCells + 1) : \E w \in 1..Room(c) :
       \E chunk \in Chunks(c, w) : UpdateMean(chunk)
  \/ \E c \in 1..(MaxCells + 1) : \E w \in 1..Room(c) :
       \E chunk \in Chunks(c, w) : UpdateVar(chunk)
  \/ \E c \in 1..(MaxCells + 1) : \E w \in 1..Room(c) :
       \E chunk \in Chunks(c, w) : UpdateTDigest(chunk)

SpecShape == Init /\ [][NextShape]_vars

\* calc_std as a pure function: any M2 array and any count n >= 1
StdInputs == {R(p) : p \in (0 - MaxScalars)..MaxScalars}

InitStd ==
  \E c \in 1..MaxCells, m \in 1..MaxScalars :
    \E v \in [1..c -> StdInputs] :
      /\ kind = "var"
      /\ size = c
      /\ n = m
      /\ mean_cumulative = Zeros(c)
      /\ var_cumulative = v
      /\ digest_list = <<>>
      /\ hist = <<>>
      /\ wsum = m
      /\ call = NoCall
      /\ std = NoStd
      /\ err = "none"

NextStd == CalcStd

SpecStd == InitStd /\ [][NextStd]_vars

\* ------------------------------------------------------------------ claims
\* one update_var call applied to a summary
Fold(st, chunk) ==
  CHOOSE r \in {update_var(c, Len(c), s.n, s.mean, s.var) :
                  s \in {st}, c \in {chunk}} : TRUE
Summary == [n |-> n, mean |-> mean_cumulative, var |-> var_cumulative]
Fresh(c) == [n |-> 0, mean |-> Zeros(c), var |-> Zeros(c)]

\* samples [1,2,3,4,5] of one cell folded as chunks [1], [2,3], [4,5]
Scenario ==
  Fold(Fold(Fold(Fresh(1), <<(<<1>>)>>), <<(<<2>>), (<<3>>)>>), <<(<<4>>), (<<5>>)>>)
ScenarioVariance == RDiv(Scenario.var[1], R(Scenario.n - 1))

\* C1: whatever the chunking, after N >= 2 samples M2 / (N - 1) is the direct
\* sample variance (ddof = 1) of all N samples of each cell; the samples
\* 1..5 folded as [1], [2,3], [4,5] end with n = 5, mean = 3, M2 = 10, and
\* sample variance 5/2.
ThmC1 ==
  /\ (kind = "var" /\ n >= 2) =>
        [j \in 1..size |-> RDiv(var_cumulative[j], R(n - 1))] = two_pass_var(hist)
  /\ Scenario = [n |-> 5, mean |-> <<R(3)>>, var |-> <<R(10)>>]
  /\ ScenarioVariance = <<5, 2>>

\* a batch (w > 1) folded into a non-empty summary whose mean differs from it
WitC1 ==
  /\ kind = "var" /\ call.op = "update_var" /\ call.w = 2 /\ n = 3
  /\ hist[1] # hist[2]
  /\ var_cumulative[1] # R(0)

\* C2: whatever the chunking, after N >= 2 samples the running mean of
\* update_mean is the direct arithmetic mean of all N samples of each cell.
ThmC2 ==
  (kind \in {"mean", "var"} /\ n >= 2) => mean_cumulative = two_pass_mean(hist)

WitC2 ==
  /\ kind = "mean" /\ call.op = "update_mean" /\ call.w = 2 /\ n = 3
  /\ hist[1] # hist[2] /\ hist[2] # hist[3]

\* C3: the count is the exact sum of the w supplied: every update call that
\* returns advances n by its w, once.
ThmC3 == n = wsum /\ n = Len(hist) /\ n >= 0

WitC3 == kind = "var" /\ call.op = "update_var" /\ call.w = 2 /\ n = 3

\* C4: the first update_var call, on the fresh state with a w = 1 chunk
\* holding x, returns n = 1, mean = x and M2 = 0 in every cell.
ThmC4 ==
  (kind = "var" /\ call.op \in {"update_var", "calc_std"} /\ Len(hist) = 1) =>
     /\ n = 1
     /\ mean_cumulative = ToArr(hist[1])
     /\ var_cumulative = Zeros(size)

WitC4 ==
  /\ kind = "var" /\ call.op = "update_var" /\ call.w = 1 /\ Len(hist) = 1
  /\ size = 2 /\ hist[1][1] # 0 /\ hist[1][2] # hist[1][1]

\* C5: calc_std with n = 1 ends in a sentinel value or an explicit
\* insufficient-samples error, never with the result unassigned.
ClaimC5 ==
  (call.op = "calc_std" /\ n = 1) =>
     /\ std.kind \in {"value", "InsufficientSamplesError"}
     /\ err # "UnboundLocalError"

\* the step of an update whose chunk has another cell count than the shape
MismatchRejected ==
  (call'.op \in {"update_mean", "update_var", "update_tdigest"} /\ call'.cells # size) =>
     /\ err' \in {"ValueError", "IndexError", "ShapeMismatchError"}
     /\ UNCHANGED <<n, mean_cumulative, var_cumulative, digest_list>>

\* C6: an update whose chunk's spatial shape differs from the aggregator's
\* ends in an error and leaves n, mean, M2 and the digests unchanged.
ClaimC6 == [][MismatchRejected]_vars

\* C7: for n >= 2 calc_std returns, per cell, 0 where M2 < 0 (the negative
\* variance clamped) and the root of M2 / (n - 1) where M2 >= 0.
ClaimC7 ==
  (call.op = "calc_std" /\ n >= 2) =>
     /\ std.kind = "value"
     /\ \A j \in 1..size :
          IF RNeg(var_cumulative[j])
          THEN std.std[j] = Sqrt(R(0))
          ELSE std.std[j] = Sqrt(RDiv(var_cumulative[j], R(n - 1)))

\* C8: from every summary reached by update_var, folding chunk A then chunk
\* B gives the same (n, mean, M2) as folding B then A; and the combination
\* of the summary with a batch summary is the same with the two roles swapped.
ThmC8 ==
  kind = "var" =>
    \A wA \in 1..Room(size) : \A wB \in 1..(Room(size) - wA) :
      \A A \in Chunks(size, wA), B \in Chunks(size, wB) :
        /\ Fold(Fold(Summary, A), B) = Fold(Fold(Summary, B), A)
        /\ LET bm == two_pass_mean(B)
               bs == IF wB = 1 THEN Zeros(size)
                     ELSE Scale(R(wB - 1), two_pass_var(B))
           IN  batch_M2(var_cumulative, bs, mean_cumulative, bm, n, wB)
                 = batch_M2(bs, var_cumulative, bm, mean_cumulative, wB, n)

\* a non-empty summary with room for a single step and a batch
WitC8 ==
  /\ kind = "var" /\ call.op = "update_var" /\ n = 1 /\ Room(size) = 3
  /\ \E A \in Chunks(size, 1), B \in Chunks(size, 2) :
       /\ Fold(Summary, A).var # Fold(Summary, B).var
       /\ Fold(Summary, A).mean # Fold(Summary, B).mean

\* C9: digest j has been fed exactly the samples of cell j of every chunk,
\* in arrival order, n of them, and there are always cellcount digests; the
\* history does not record the chunking, so the feed does not depend on it.
ThmC9 ==
  kind = "tdigest" =>
     /\ Len(digest_list) = size
     /\ \A j \in 1..size :
          /\ digest_list[j] = IntColumn(hist, j)
          /\ Len(digest_list[j]) = n

\* two cells fed by one w = 2 chunk whose flat order differs from its columns
WitC9 ==
  /\ kind = "tdigest" /\ call.op = "update_tdigest" /\ call.w = 2
  /\ size = 2 /\ n = 2
  /\ hist[1][1] # hist[1][2] /\ hist[1][2] # hist[2][1]

\* C10: at w = 1 the single-step branch and the batch formula agree: for
\* every sample x, M2 + (x - oldMean)(x - mean') with mean' = oldMean +
\* (x - oldMean) / (n + 1) equals M2 + 0 + (oldMean - x)^2 * n / (n + 1).
ThmC10 ==
  kind = "var" =>
    \A x \in (IF Room(size) >= 1 THEN Rows(size) ELSE {}) :
      LET xs == ToArr(x)
          mean1 == [j \in 1..size |->
                      RAdd(mean_cumulative[j],
                           RDiv(RSub(xs[j], mean_cumulative[j]), R(n + 1)))]
          got == update_var(<<x>>, 1, n, mean_cumulative, var_cumulative)
      IN  /\ got.mean = mean1
          /\ got.n = n + 1
          /\ got.var = [j \in 1..size |->
                          RAdd(var_cumulative[j],
                               RMul(RSub(xs[j], mean_cumulative[j]),
                                    RSub(xs[j], mean1[j])))]
          /\ got.var = batch_M2(var_cumulative, Zeros(size), mean_cumulative, xs, n, 1)

\* a summary with a non-zero M2 and a mean that some next sample differs from
WitC10 ==
  /\ kind = "var" /\ call.op = "update_var" /\ n = 2 /\ Room(size) >= 1
  /\ var_cumulative[1] # R(0)
  /\ \E x \in Rows(size) : ToArr(x) # mean_cumulative

====
